---- MODULE Spec2Model ----
(***************************************************************************)
(* A model of compare_app.py: the PDF / Excel comparison script.           *)
(*                                                                         *)
(* Encoding.  A Python string is a sequence of one-character strings       *)
(* (<<"1","0">> is "10", <<>> is "").  Values that are not strings are     *)
(* one-element sequences holding a token longer than one character, which  *)
(* no string can equal: None, NaN and the integer column labels            *)
(* IntId(0), IntId(1), ...                                                  *)
(*                                                                         *)
(* A DataFrame is [columns, nrows, data]: the column labels in order, the  *)
(* row count, and per label the cells of rows 0 .. nrows-1 (held at the    *)
(* positions 1 .. nrows of a sequence).  Column labels of one frame are    *)
(* distinct.                                                               *)
(***************************************************************************)
EXTENDS Integers, Sequences, FiniteSets, TLC

VARIABLES
    pdf_tables,     \* what page.extract_tables() yields over all pages (input)
    pdf_text,       \* the joined page texts (input)
    excel_data,     \* what pd.read_excel() yields (input)
    astype_keeps_na,\* whether the installed pandas keeps NA through astype(str)
    hash_order,     \* this interpreter's iteration order of the matched set
    default_prefix, \* this interpreter's HtmlDiff._default_prefix
    pc,             \* "idle" | "done" | "raised"
    pdf_data,       \* combined_data of the last run
    last_match,     \* what match_columns returned in the last run
    compared,       \* the column pairs the last run's loop ran over
    data_diff,      \* the Mismatch Report of the last run
    html_diff,      \* the Text Diff Table of the last run
    ui,             \* what the data section of the page shows
    runs,           \* comparisons run so far on these inputs
    prev_diff,      \* data_diff of the run before the last
    prev_html,      \* html_diff of the run before the last
    text1, text2,   \* arguments of a direct make_html_diff call
    table           \* its result

vars == <<pdf_tables, pdf_text, excel_data, astype_keeps_na, hash_order,
          default_prefix, pc,
          pdf_data, last_match, compared, data_diff, html_diff, ui, runs,
          prev_diff, prev_html,
          text1, text2, table>>

(***************************************************************************)
(* Bounds of the model.                                                    *)
(***************************************************************************)
MaxCols == 2      \* columns of a frame or table
MaxRows == 2      \* rows of a frame, data rows of the extracted tables
MaxTables == 2    \* tables extracted from the PDF
MaxRuns == 2      \* comparisons run on the same files
MaxTextLen == 3   \* characters of a text given to make_html_diff
MaxCalls == 2     \* direct make_html_diff calls in one interpreter

(***************************************************************************)
(* Values.                                                                 *)
(***************************************************************************)
None == <<"<None>">>
NaN == <<"<NaN>">>
IntTok == <<"<0>", "<1>", "<2>", "<3>", "<4>", "<5>">>
IntId(k) == <<IntTok[k + 1]>>
IntIds == {IntId(k) : k \in 0..(Len(IntTok) - 1)}

IsStr(v) == v \notin ({None, NaN} \cup IntIds)
IsNA(v) == v \in {None, NaN}

Range(s) == {s[i] : i \in DOMAIN s}
Max(a, b) == IF a >= b THEN a ELSE b
Min(a, b) == IF a <= b THEN a ELSE b

RECURSIVE SeqSum(_)
SeqSum(s) == IF s = <<>> THEN 0 ELSE Head(s) + SeqSum(Tail(s))

RECURSIVE Flatten(_)
Flatten(ss) == IF ss = <<>> THEN <<>> ELSE Head(ss) \o Flatten(Tail(ss))

\* Every enumeration of the finite set S.
Perms(S) == {s \in [1..Cardinality(S) -> S] : Range(s) = S}

\* str.lower on one character (ASCII).
LowerChar(c) ==
    CASE c = "A" -> "a" [] c = "B" -> "b" [] c = "C" -> "c" [] c = "D" -> "d"
      [] c = "E" -> "e" [] c = "F" -> "f" [] c = "G" -> "g" [] c = "H" -> "h"
      [] c = "I" -> "i" [] c = "J" -> "j" [] c = "K" -> "k" [] c = "L" -> "l"
      [] c = "M" -> "m" [] c = "N" -> "n" [] c = "O" -> "o" [] c = "P" -> "p"
      [] c = "Q" -> "q" [] c = "R" -> "r" [] c = "S" -> "s" [] c = "T" -> "t"
      [] c = "U" -> "u" [] c = "V" -> "v" [] c = "W" -> "w" [] c = "X" -> "x"
      [] c = "Y" -> "y" [] c = "Z" -> "z" [] OTHER -> c

\* c.lower() of a string c.
Lower(c) == [i \in DOMAIN c |-> LowerChar(c[i])]

(***************************************************************************)
(* DataFrames.                                                             *)
(***************************************************************************)
\* pd.DataFrame(): no columns, no rows.
EmptyFrame == [columns |-> <<>>, nrows |-> 0, data |-> <<>>]

\* The position of label c in the label sequence cols.
PosOf(cols, c) == CHOOSE i \in DOMAIN cols : cols[i] = c

\* The frame built from one extracted table t, a sequence of rows: the
\* first row becomes the header when there is more than one row; a table of
\* one row keeps the positional labels 0, 1, ...
frame_of_table(t) ==
    IF Len(t) > 1
    THEN [columns |-> t[1],
          nrows |-> Len(t) - 1,
          data |-> [c \in Range(t[1]) |->
                        [r \in 1..(Len(t) - 1) |-> t[r + 1][PosOf(t[1], c)]]]]
    ELSE IF Len(t) = 1
    THEN [columns |-> [k \in 1..Len(t[1]) |-> IntId(k - 1)],
          nrows |-> 1,
          data |-> [c \in {IntId(k - 1) : k \in 1..Len(t[1])} |->
                        <<t[1][CHOOSE k \in 1..Len(t[1]) : IntId(k - 1) = c]>>]]
    ELSE EmptyFrame

\* The labels of the frames fs in order of first appearance.
RECURSIVE UnionColumns(_)
UnionColumns(fs) ==
    IF fs = <<>> THEN <<>>
    ELSE LET rest == UnionColumns(Tail(fs))
             mine == Head(fs).columns
         IN mine \o SelectSeq(rest, LAMBDA c : c \notin Range(mine))

\* Column c of frame f as stacked by pd.concat: its cells, or NaN in every
\* row when f has no such column.
StackedColumn(f, c) ==
    IF c \in Range(f.columns) THEN f.data[c] ELSE [r \in 1..f.nrows |-> NaN]

\* pd.concat(frames, ignore_index=True): rows stacked, columns united,
\* cells a frame does not have filled with NaN, rows renumbered from 0.
concat_ignore_index(fs) ==
    LET cols == UnionColumns(fs)
    IN [columns |-> cols,
        nrows |-> SeqSum([i \in DOMAIN fs |-> fs[i].nrows]),
        data |-> [c \in Range(cols) |->
                     Flatten([i \in DOMAIN fs |-> StackedColumn(fs[i], c)])]]

\* combined_data of extract_pdf_text_and_tables.
extract_pdf_tables(tables) ==
    IF tables # <<>>
    THEN concat_ignore_index([i \in DOMAIN tables |-> frame_of_table(tables[i])])
    ELSE EmptyFrame

(***************************************************************************)
(* Normalisation of a column: .astype(str).fillna("").                     *)
(***************************************************************************)
\* astype(str) on one cell.  Up to pandas 2 the result is an object column
\* of Python strings, str(None) and str(nan) included; from pandas 3 the
\* result has the str dtype, which keeps a missing value missing.
astype_str(v) ==
    IF IsNA(v)
    THEN IF astype_keeps_na THEN NaN
         ELSE IF v = None THEN <<"N", "o", "n", "e">> ELSE <<"n", "a", "n">>
    ELSE v

\* fillna(fill) on one cell.
fillna(v, fill) == IF IsNA(v) THEN fill ELSE v

\* df[col].astype(str).fillna("")
normalized_column(df, col) ==
    [i \in DOMAIN df.data[col] |-> fillna(astype_str(df.data[col][i]), <<>>)]

\* A reindex that forgets fill_value: new rows hold NaN.
reindex_default_fill(s, n, fill) ==
    [i \in 1..n |-> IF i <= Len(s) THEN s[i] ELSE NaN]

\* s.reindex(range(n), fill_value=fill) of a series indexed 0 .. Len(s)-1.
reindex(s, n, fill) == [i \in 1..n |-> IF i <= Len(s) THEN s[i] ELSE fill]

(***************************************************************************)
(* match_columns.                                                          *)
(***************************************************************************)
\* {c.lower(): c for c in columns}: the last label wins a lower-cased key.
cols_lower(columns) ==
    [k \in {Lower(c) : c \in Range(columns)} |->
        columns[CHOOSE i \in DOMAIN columns :
                    /\ Lower(columns[i]) = k
                    /\ \A j \in DOMAIN columns :
                           Lower(columns[j]) = k => j <= i]]

\* The set match_columns builds and then enumerates: the exact intersection
\* or, when that is empty, the intersection of the lower-cased labels.
matched_set(df1, df2) ==
    LET exact == Range(df1.columns) \cap Range(df2.columns)
    IN IF exact # {} THEN exact
       ELSE IF \E c \in Range(df1.columns) \cup Range(df2.columns) : ~IsStr(c)
       THEN {}
       ELSE {Lower(c) : c \in Range(df1.columns)}
                \cap {Lower(c) : c \in Range(df2.columns)}

\* A match_columns that looks the labels up by their lower-cased names even
\* when labels are shared exactly.
match_columns_lower_only(df1, df2, ord) ==
    [kind |-> "dict",
     items |-> [k \in 1..Len(ord) |->
                   <<ord[k], cols_lower(df2.columns)[Lower(ord[k])]>>]]

\* match_columns(df1, df2), the set or dict it returns enumerated in the
\* order ord of matched_set.  kind "set": items are labels; kind "dict":
\* items are <<key, value>>; kind "AttributeError": c.lower() was called on
\* a label that is not a string.
match_columns(df1, df2, ord) ==
    LET shared_cols == Range(df1.columns) \cap Range(df2.columns)
    IN IF shared_cols # {}
       THEN [kind |-> "set", items |-> ord]
       ELSE IF \E c \in Range(df1.columns) \cup Range(df2.columns) : ~IsStr(c)
       THEN [kind |-> "AttributeError", items |-> <<>>]
       ELSE LET df1_cols_lower == cols_lower(df1.columns)
                df2_cols_lower == cols_lower(df2.columns)
            IN [kind |-> "dict",
                items |-> [i \in DOMAIN ord |->
                              <<df1_cols_lower[ord[i]], df2_cols_lower[ord[i]]>>]]

(***************************************************************************)
(* compare_dataframes_smart.                                               *)
(***************************************************************************)
\* The (col_excel, col_pdf) pairs the for loop runs over:
\* shared_cols.items() of a dict, zip(shared_cols, shared_cols) of a set.
loop_pairs(shared_cols) ==
    IF shared_cols.kind = "dict"
    THEN shared_cols.items
    ELSE [i \in DOMAIN shared_cols.items |->
             <<shared_cols.items[i], shared_cols.items[i]>>]

\* A loop body that writes the normalised column back into its frame.
frame_after_read_in_place(df, col) ==
    [df EXCEPT !.data[col] = normalized_column(df, col)]

\* The frame a column was read from, after the loop body has normalised
\* and padded that column: astype, fillna and reindex each return a new
\* Series, so the frame holds what it held.
frame_after_read(df, col) == df

\* A loop body without the .loc[s1 != s2] selection.
column_mismatches_unfiltered(df_excel, col_excel, df_pdf, col_pdf) ==
    LET s1 == normalized_column(df_excel, col_excel)
        s2 == normalized_column(df_pdf, col_pdf)
    IN [i \in 1..Max(Len(s1), Len(s2)) |->
           [index |-> i - 1, Excel |-> reindex(s1, i, <<>>)[i],
            PDF |-> reindex(s2, i, <<>>)[i], Column |-> col_excel]]

\* One pass of the loop body: the rows of
\* pd.DataFrame({"Excel": s1, "PDF": s2}).loc[s1 != s2], each with its
\* index label (the 0-based row position) and the "Column" field.
column_mismatches(df_excel, col_excel, df_pdf, col_pdf) ==
    LET s1 == normalized_column(df_excel, col_excel)
        s2 == normalized_column(df_pdf, col_pdf)
        max_len == Max(Len(s1), Len(s2))
        r1 == reindex(s1, max_len, <<>>)
        r2 == reindex(s2, max_len, <<>>)
        rows == [i \in 1..max_len |->
                    [index |-> i - 1, Excel |-> r1[i], PDF |-> r2[i],
                     Column |-> col_excel]]
    IN SelectSeq(rows, LAMBDA r : r.Excel # r.PDF)

\* The for loop over pairs from position k on, carrying diffs (the list of
\* non-empty mismatch frames) and the two input frames.
RECURSIVE compare_loop(_, _, _, _, _)
compare_loop(pairs, k, diffs, df_excel, df_pdf) ==
    IF k > Len(pairs)
    THEN [diffs |-> diffs, df_excel |-> df_excel, df_pdf |-> df_pdf]
    ELSE LET col_excel == pairs[k][1]
             col_pdf == pairs[k][2]
             mismatches == column_mismatches(df_excel, col_excel, df_pdf, col_pdf)
         IN compare_loop(pairs, k + 1,
                         IF mismatches # <<>> THEN Append(diffs, mismatches)
                                              ELSE diffs,
                         frame_after_read(df_excel, col_excel),
                         frame_after_read(df_pdf, col_pdf))

\* A concatenation followed by sort_index(kind="stable").
concat_diffs_sorted(diffs) ==
    Flatten([i \in 1..(MaxRows + 2) |->
                SelectSeq(Flatten(diffs), LAMBDA r : r.index = i - 1)])

\* pd.concat(diffs) if diffs else pd.DataFrame(): the rows of the frames of
\* diffs one after the other, index labels kept.
concat_diffs(diffs) == Flatten(diffs)

\* compare_dataframes_smart(df_excel, df_pdf) in an interpreter that
\* enumerates the matched set in the order ord.  raised: the exception that
\* left the function, or "" when it returned; report: the returned frame;
\* pairs: the column pairs compared; df_excel, df_pdf: the arguments after
\* the call.
compare_dataframes_smart(df_excel, df_pdf, ord) ==
    LET shared_cols == match_columns(df_excel, df_pdf, ord)
    IN IF shared_cols.kind = "AttributeError"
       THEN [raised |-> "AttributeError", report |-> <<>>, pairs |-> <<>>,
             df_excel |-> df_excel, df_pdf |-> df_pdf]
       ELSE LET pairs == loop_pairs(shared_cols)
                done == compare_loop(pairs, 1, <<>>, df_excel, df_pdf)
            IN [raised |-> "", report |-> concat_diffs(done.diffs),
                pairs |-> pairs,
                df_excel |-> done.df_excel, df_pdf |-> done.df_pdf]

\* The orders in which an interpreter may enumerate the set S of labels.
\* The hash of a string depends on the interpreter's hash seed; the hash of
\* a small integer is the integer, so a set of integer labels alone is
\* enumerated in increasing order.
IntOrder(S) ==
    CHOOSE s \in Perms(S) :
        \A i, j \in DOMAIN s :
            i < j => (CHOOSE k \in 0..(Len(IntTok) - 1) : IntId(k) = s[i])
                       < (CHOOSE k \in 0..(Len(IntTok) - 1) : IntId(k) = s[j])

set_orders(S) == IF S \subseteq IntIds THEN {IntOrder(S)} ELSE Perms(S)

(***************************************************************************)
(* Text: str.splitlines and "\n".join.                                     *)
(***************************************************************************)
RECURSIVE split_from(_, _, _)
split_from(text, i, cur) ==
    IF i > Len(text) THEN (IF cur = <<>> THEN <<>> ELSE <<cur>>)
    ELSE IF text[i] = "\n" THEN <<cur>> \o split_from(text, i + 1, <<>>)
    ELSE split_from(text, i + 1, Append(cur, text[i]))

\* text.split("\n"): a last empty line is kept, and "" is one empty line.
split_on_newline(text) ==
    split_from(text, 1, <<>>)
        \o (IF text = <<>> \/ text[Len(text)] = "\n" THEN <<<<>>>> ELSE <<>>)

\* text.splitlines(): the lines between line breaks, without a last empty
\* line.
splitlines(text) == split_from(text, 1, <<>>)

\* "\n".join(parts)
RECURSIVE join_lines(_)
join_lines(parts) ==
    IF parts = <<>> THEN <<>>
    ELSE IF Len(parts) = 1 THEN parts[1]
    ELSE parts[1] \o <<"\n">> \o join_lines(Tail(parts))

\* excel_data.astype(str).fillna("").values.flatten(): the normalised cells
\* row by row.
flattened_cells(df) ==
    Flatten([r \in 1..df.nrows |->
                [k \in DOMAIN df.columns |->
                    normalized_column(df, df.columns[k])[r]]])

excel_text_of(df) == join_lines(flattened_cells(df))

(***************************************************************************)
(* difflib.SequenceMatcher without junk, on sequences a and b.  Positions  *)
(* are Python's: 0-based, ranges half-open; a[i + 1] is Python's a[i].     *)
(***************************************************************************)
RECURSIVE run_len(_, _, _, _, _, _)
run_len(a, i, ahi, b, j, bhi) ==
    IF i < ahi /\ j < bhi /\ a[i + 1] = b[j + 1]
    THEN 1 + run_len(a, i + 1, ahi, b, j + 1, bhi)
    ELSE 0

SetMax(S) == CHOOSE x \in S : \A y \in S : y <= x
SetMin(S) == CHOOSE x \in S : \A y \in S : x <= y

\* The block find_longest_match returns, from sizes, the length of the
\* common run that starts at each pair of positions: the longest; of the
\* longest, the one that starts earliest in a; of those, the one that starts
\* earliest in b.
longest_block(sizes, alo, blo) ==
    IF DOMAIN sizes = {} \/ \A p \in DOMAIN sizes : sizes[p] = 0
    THEN <<alo, blo, 0>>
    ELSE CHOOSE m \in {<<p[1], p[2], sizes[p]>> : p \in DOMAIN sizes} :
             \A p \in DOMAIN sizes :
                 \/ sizes[p] < m[3]
                 \/ sizes[p] = m[3] /\ m[1] < p[1]
                 \/ sizes[p] = m[3] /\ m[1] = p[1] /\ m[2] <= p[2]

find_longest_match(a, alo, ahi, b, blo, bhi) ==
    longest_block([p \in (alo..(ahi - 1)) \X (blo..(bhi - 1)) |->
                      run_len(a, p[1], ahi, b, p[2], bhi)],
                  alo, blo)

RECURSIVE matching_blocks(_, _, _, _, _, _)
matching_blocks(a, alo, ahi, b, blo, bhi) ==
    LET m == find_longest_match(a, alo, ahi, b, blo, bhi)
    IN IF m[3] = 0 THEN <<>>
       ELSE matching_blocks(a, alo, m[1], b, blo, m[2])
            \o <<m>>
            \o matching_blocks(a, m[1] + m[3], ahi, b, m[2] + m[3], bhi)

\* get_matching_blocks, with the closing <<len(a), len(b), 0>>.
get_matching_blocks(a, b) ==
    Append(matching_blocks(a, 0, Len(a), b, 0, Len(b)), <<Len(a), Len(b), 0>>)

RECURSIVE opcodes_from(_, _, _, _)
opcodes_from(blocks, k, i, j) ==
    IF k > Len(blocks) THEN <<>>
    ELSE LET ai == blocks[k][1]
             bj == blocks[k][2]
             size == blocks[k][3]
             tag == IF i < ai /\ j < bj THEN "replace"
                    ELSE IF i < ai THEN "delete"
                    ELSE IF j < bj THEN "insert"
                    ELSE ""
             gap == IF tag # ""
                    THEN <<[tag |-> tag, i1 |-> i, i2 |-> ai, j1 |-> j, j2 |-> bj]>>
                    ELSE <<>>
             eq == IF size > 0
                   THEN <<[tag |-> "equal", i1 |-> ai, i2 |-> ai + size,
                           j1 |-> bj, j2 |-> bj + size]>>
                   ELSE <<>>
         IN gap \o eq \o opcodes_from(blocks, k + 1, ai + size, bj + size)

get_opcodes(a, b) == opcodes_from(get_matching_blocks(a, b), 1, 0, 0)

\* The number of matched elements: ratio() is 2 * matches / (len(a) + len(b)).
matches(a, b) ==
    LET blocks == get_matching_blocks(a, b)
    IN SeqSum([k \in DOMAIN blocks |-> blocks[k][3]])

(***************************************************************************)
(* difflib.Differ.compare on the line lists a and b: the ndiff lines, each *)
(* [c, n, m]: c the first character of the line ("-", "+", " " or "?"),    *)
(* n the number of the line it shows in its own text, m the number in the  *)
(* other text of an unchanged line.  Lines hold no blank or tab, so no     *)
(* character is junk.                                                      *)
(***************************************************************************)
dump(c, lo, hi) == [k \in 1..(hi - lo) |-> [c |-> c, n |-> lo + k, m |-> 0]]

plain_replace(alo, ahi, blo, bhi) ==
    IF bhi - blo < ahi - alo
    THEN dump("+", blo, bhi) \o dump("-", alo, ahi)
    ELSE dump("-", alo, ahi) \o dump("+", blo, bhi)

\* _qformat of a synched pair: "-", "?" when the a side has a changed or
\* deleted character, "+", "?" when the b side has a changed or inserted one.
qformat(a, i, b, j) ==
    LET ops == get_opcodes(a[i + 1], b[j + 1])
        atags == \E k \in DOMAIN ops : ops[k].tag \in {"replace", "delete"}
        btags == \E k \in DOMAIN ops : ops[k].tag \in {"replace", "insert"}
    IN <<[c |-> "-", n |-> i + 1, m |-> 0]>>
       \o (IF atags THEN <<[c |-> "?", n |-> 0, m |-> 0]>> ELSE <<>>)
       \o <<[c |-> "+", n |-> j + 1, m |-> 0]>>
       \o (IF btags THEN <<[c |-> "?", n |-> 0, m |-> 0]>> ELSE <<>>)

\* For every pair <<i, j>> of a line of a[alo:ahi] and a line of b[blo:bhi]:
\* whether the two are the same line, and the matches and the total length
\* their ratio() is made of.
pair_scores(a, alo, ahi, b, blo, bhi) ==
    [p \in (alo..(ahi - 1)) \X (blo..(bhi - 1)) |->
        [same |-> a[p[1] + 1] = b[p[2] + 1],
         m |-> matches(a[p[1] + 1], b[p[2] + 1]),
         t |-> Len(a[p[1] + 1]) + Len(b[p[2] + 1])]]

\* The first pair of S in _fancy_replace's scan (b outer, a inner).
first_in_scan(S) ==
    CHOOSE p \in S : \A q \in S : p[2] < q[2] \/ (p[2] = q[2] /\ p[1] <= q[1])

\* The pair _fancy_replace synchs on: of the pairs of different lines with
\* ratio at least 0.75 those of the highest ratio, and of these the first in
\* the scan; <<>> when no pair is that close.
close_pair(sc) ==
    LET close == {p \in DOMAIN sc : ~sc[p].same /\ 8 * sc[p].m >= 3 * sc[p].t}
    IN IF close = {} THEN <<>>
       ELSE first_in_scan({p \in close : \A q \in close :
                               sc[p].m * sc[q].t >= sc[q].m * sc[p].t})

\* The first pair of identical lines in the scan; <<>> when there is none.
equal_pair(sc) ==
    IF \A p \in DOMAIN sc : ~sc[p].same THEN <<>>
    ELSE first_in_scan({p \in DOMAIN sc : sc[p].same})

\* The synch point of a block pair: <<i, j, close>>, or <<>> for a plain
\* replace.
synch_point(best, eq) ==
    IF best # <<>> THEN <<best[1], best[2], TRUE>>
    ELSE IF eq # <<>> THEN <<eq[1], eq[2], FALSE>>
    ELSE <<>>

synch_of(sc) == synch_point(close_pair(sc), equal_pair(sc))

\* _fancy_helper, with _fancy_replace (its case of two non-empty blocks)
\* written out in it; sp is the synch point of the two blocks.
RECURSIVE fancy_at(_, _, _, _, _, _, _)
fancy_at(a, alo, ahi, b, blo, bhi, sp) ==
    IF alo < ahi /\ blo < bhi
    THEN IF sp = <<>>
         THEN plain_replace(alo, ahi, blo, bhi)
         ELSE fancy_at(a, alo, sp[1], b, blo, sp[2],
                       synch_of(pair_scores(a, alo, sp[1], b, blo, sp[2])))
              \o (IF sp[3] THEN qformat(a, sp[1], b, sp[2])
                  ELSE <<[c |-> " ", n |-> sp[1] + 1, m |-> sp[2] + 1]>>)
              \o fancy_at(a, sp[1] + 1, ahi, b, sp[2] + 1, bhi,
                          synch_of(pair_scores(a, sp[1] + 1, ahi, b, sp[2] + 1, bhi)))
    ELSE IF alo < ahi THEN dump("-", alo, ahi)
    ELSE IF blo < bhi THEN dump("+", blo, bhi)
    ELSE <<>>

fancy_helper(a, alo, ahi, b, blo, bhi) ==
    fancy_at(a, alo, ahi, b, blo, bhi,
             synch_of(pair_scores(a, alo, ahi, b, blo, bhi)))

\* _fancy_replace: called on two non-empty blocks.
fancy_replace(a, alo, ahi, b, blo, bhi) == fancy_helper(a, alo, ahi, b, blo, bhi)

differ_compare(a, b) ==
    LET ops == get_opcodes(a, b)
    IN Flatten([k \in DOMAIN ops |->
           CASE ops[k].tag = "replace" ->
                    fancy_replace(a, ops[k].i1, ops[k].i2, b, ops[k].j1, ops[k].j2)
             [] ops[k].tag = "delete" -> dump("-", ops[k].i1, ops[k].i2)
             [] ops[k].tag = "insert" -> dump("+", ops[k].j1, ops[k].j2)
             [] OTHER ->
                    [d \in 1..(ops[k].i2 - ops[k].i1) |->
                        [c |-> " ", n |-> ops[k].i1 + d, m |-> ops[k].j1 + d]]])

(***************************************************************************)
(* difflib._mdiff: the side-by-side rows.  A side of a row is [num, mark]: *)
(* the line's number in its text and how the line is marked up: "plain"    *)
(* (no markup), "sub" (the whole line deleted), "add" (the whole line      *)
(* added) or "chg" (intraline markup of a synched pair).  Blank is the     *)
(* filler ('', '\n') shown beside a line with no partner; NoLine is None.  *)
(***************************************************************************)
NoLine == [num |-> 0, mark |-> "none"]
Blank == [num |-> 0, mark |-> "blank"]
Separator == [from |-> NoLine, to |-> NoLine, flag |-> FALSE]

TagAt(st, p) == IF p <= Len(st) THEN st[p].c ELSE "X"

\* The filler rows that line the two sides up again.
blank_rows(n) ==
    IF n < 0 THEN [k \in 1..(0 - n) |-> [from |-> NoLine, to |-> Blank, flag |-> TRUE]]
    ELSE [k \in 1..n |-> [from |-> Blank, to |-> NoLine, flag |-> TRUE]]

\* _line_iterator over the ndiff lines st from position p on, with
\* num_blanks_pending = pend.
RECURSIVE line_iterator(_, _, _)
line_iterator(st, p, pend) ==
    LET s1 == TagAt(st, p)
        s2 == TagAt(st, p + 1)
        s3 == TagAt(st, p + 2)
        s4 == TagAt(st, p + 3)
        del == [from |-> [num |-> st[p].n, mark |-> "sub"], to |-> NoLine,
                flag |-> TRUE]
        add == [from |-> NoLine, to |-> [num |-> st[p].n, mark |-> "add"],
                flag |-> TRUE]
    IN CASE s1 = "X" -> blank_rows(pend)
         [] s1 = "-" /\ s2 = "?" /\ s3 = "+" /\ s4 = "?" ->
                <<[from |-> [num |-> st[p].n, mark |-> "chg"],
                   to |-> [num |-> st[p + 2].n, mark |-> "chg"],
                   flag |-> TRUE]>>
                \o line_iterator(st, p + 4, pend)
         [] s1 = "-" /\ s2 = "-" /\ s3 = "+" /\ s4 = "+" ->
                <<del>> \o line_iterator(st, p + 1, pend - 1)
         [] s1 = "-" /\ (\/ s2 = "-" /\ s3 = "?" /\ s4 = "+"
                         \/ s2 = "-" /\ s3 = "+"
                         \/ s2 = " ") ->
                blank_rows(pend - 1) \o <<del>> \o line_iterator(st, p + 1, 0)
         [] s1 = "-" /\ s2 = "+" /\ s3 = "?" ->
                <<[from |-> [num |-> st[p].n, mark |-> "plain"],
                   to |-> [num |-> st[p + 1].n, mark |-> "chg"],
                   flag |-> TRUE]>>
                \o line_iterator(st, p + 3, pend)
         [] s1 = "-" /\ s2 = "?" /\ s3 = "+" ->
                <<[from |-> [num |-> st[p].n, mark |-> "chg"],
                   to |-> [num |-> st[p + 2].n, mark |-> "plain"],
                   flag |-> TRUE]>>
                \o line_iterator(st, p + 3, pend)
         [] s1 = "-" ->
                <<del>> \o line_iterator(st, p + 1, pend - 1)
         [] s1 = "+" /\ s2 = "-" /\ s3 = "-" ->
                <<add>> \o line_iterator(st, p + 1, pend + 1)
         [] s1 = "+" /\ s2 \in {" ", "-"} ->
                blank_rows(pend + 1) \o <<add>> \o line_iterator(st, p + 1, 0)
         [] s1 = "+" ->
                <<add>> \o line_iterator(st, p + 1, pend + 1)
         [] OTHER ->
                <<[from |-> [num |-> st[p].n, mark |-> "plain"],
                   to |-> [num |-> st[p].m, mark |-> "plain"],
                   flag |-> FALSE]>>
                \o line_iterator(st, p + 1, pend)

\* _line_pair_iterator: the from sides and the to sides, each in order,
\* paired off.
line_pairs(st) ==
    LET rows == line_iterator(st, 1, 0)
        fromlines == SelectSeq(rows, LAMBDA r : r.from # NoLine)
        tolines == SelectSeq(rows, LAMBDA r : r.to # NoLine)
    IN [k \in 1..Min(Len(fromlines), Len(tolines)) |->
           [from |-> fromlines[k].from, to |-> tolines[k].to,
            flag |-> fromlines[k].flag \/ tolines[k].flag]]

\* The rows _mdiff yields with context lines: a row is kept when a changed
\* row lies at most numlines rows away, and a Separator stands wherever
\* rows were left out before a kept row.
mdiff_context(rows, numlines) ==
    LET kept(k) == \E d \in DOMAIN rows :
                       rows[d].flag /\ d - k <= numlines /\ k - d <= numlines
    IN Flatten([k \in DOMAIN rows |->
           IF ~kept(k) THEN <<>>
           ELSE IF k > 1 /\ ~kept(k - 1) THEN <<Separator, rows[k]>>
           ELSE <<rows[k]>>])

mdiff(fromlines, tolines, numlines) ==
    mdiff_context(line_pairs(differ_compare(fromlines, tolines)), numlines)

(***************************************************************************)
(* make_html_diff.                                                         *)
(***************************************************************************)
\* HtmlDiff.make_table's numlines default.
NumLines == 5

\* HtmlDiff(wrapcolumn=80).make_table(text1.splitlines(), text2.splitlines(),
\* fromdesc="PDF Text", todesc="Excel Text", context=True) when
\* HtmlDiff._default_prefix is prefix: the anchor prefix, the two headers,
\* the table's rows (a separator that would come first is not written), and
\* whether the table is the single "No Differences Found" row.  Lines are
\* shorter than the wrap column.
make_html_diff(t1, t2, prefix) ==
    LET rows == mdiff(splitlines(t1), splitlines(t2), NumLines)
    IN [prefix |-> prefix,
        fromdesc |-> "PDF Text",
        todesc |-> "Excel Text",
        rows |-> IF rows # <<>> /\ rows[1] = Separator THEN Tail(rows) ELSE rows,
        no_differences |-> rows = <<>>]

(***************************************************************************)
(* The script: one press of "Compare Files" on the uploaded files.         *)
(***************************************************************************)
NoTable == [prefix |-> -1, fromdesc |-> "", todesc |-> "", rows |-> <<>>,
            no_differences |-> FALSE]
NoMatch == [kind |-> "", items |-> <<>>]
NoOrder == [known |-> FALSE, order |-> <<>>]

\* The button handler.  The interpreter enumerates the matched set in an
\* order it keeps for as long as it lives.  An exception ends the run and
\* the page shows it; otherwise the page shows the report, or the "no data
\* mismatches" note when the report is empty.
CompareFiles ==
    /\ runs < MaxRuns
    /\ LET pdf == extract_pdf_tables(pdf_tables)
           excel_text == excel_text_of(excel_data)
       IN \E ord \in set_orders(matched_set(excel_data, pdf)) :
            /\ hash_order.known => ord = hash_order.order
            /\ hash_order' = [known |-> TRUE, order |-> ord]
            /\ LET r == compare_dataframes_smart(excel_data, pdf, ord)
               IN /\ excel_data' = r.df_excel
                  /\ pdf_data' = r.df_pdf
                  /\ last_match' = match_columns(excel_data, pdf, ord)
                  /\ compared' = r.pairs
                  /\ IF r.raised # ""
                     THEN /\ pc' = "raised"
                          /\ data_diff' = <<>>
                          /\ html_diff' = NoTable
                          /\ ui' = "exception"
                          /\ UNCHANGED default_prefix
                     ELSE /\ pc' = "done"
                          /\ data_diff' = r.report
                          /\ html_diff' = make_html_diff(pdf_text, excel_text,
                                                         default_prefix)
                          /\ default_prefix' = default_prefix + 1
                          /\ ui' = IF r.report # <<>> THEN "dataframe"
                                   ELSE "no_mismatches"
    /\ runs' = runs + 1
    /\ prev_diff' = data_diff
    /\ prev_html' = html_diff
    /\ UNCHANGED <<pdf_tables, pdf_text, astype_keeps_na, text1, text2, table>>

\* The server is started anew: a new interpreter, with a new hash seed and
\* HtmlDiff._default_prefix at 0 again.
Restart ==
    /\ hash_order.known
    /\ runs < MaxRuns
    /\ hash_order' = NoOrder
    /\ default_prefix' = 0
    /\ UNCHANGED <<pdf_tables, pdf_text, excel_data, astype_keeps_na, pc,
                   pdf_data, last_match, compared, data_diff, html_diff, ui,
                   runs,
                   prev_diff, prev_html, text1, text2, table>>

Next == CompareFiles \/ Restart

(***************************************************************************)
(* The files the script is given.                                          *)
(***************************************************************************)
Total == <<"T", "o", "t", "a", "l">>
total == <<"t", "o", "t", "a", "l">>
TOTAL == <<"T", "O", "T", "A", "L">>
Name == <<"N", "a", "m", "e">>
Ten == <<"1", "0">>
Digit == <<"1", "2", "3", "4", "5", "6", "7", "8", "9">>

Labels == {Total, total, TOTAL, Name}

\* The sequences of at most n distinct elements of S.
DistinctSeqs(S, n) ==
    UNION {{s \in [1..k -> S] : \A i, j \in 1..k : i # j => s[i] # s[j]} :
               k \in 0..n}

\* The frames with the labels cols, n rows and cells from C.
FramesOf(cols, n, C) ==
    {[columns |-> cols, nrows |-> n, data |-> d] :
        d \in [Range(cols) -> [1..n -> C]]}

\* The extracted tables with the header hdr and n data rows of cells from C.
TablesOf(hdr, n, C) ==
    {<<hdr>> \o rows : rows \in [1..n -> [1..Len(hdr) -> C]]}

\* A frame or a row whose cell in the k-th column is the digit k.
NumberedFrame(cols) ==
    [columns |-> cols, nrows |-> IF cols = <<>> THEN 0 ELSE 1,
     data |-> [c \in Range(cols) |-> <<<<Digit[PosOf(cols, c)]>>>>]]
NumberedRow(w) == [k \in 1..w |-> <<Digit[k]>>]

\* Files that differ in their column labels: one numbered row each; the PDF
\* holds no table, one table of one row, or one table with a header.
InitLabels ==
    /\ excel_data \in {NumberedFrame(cols) :
                          cols \in DistinctSeqs(Labels \cup {IntId(0)}, MaxCols)}
    /\ pdf_tables \in {<<>>}
          \cup {<<<<NumberedRow(w)>>>> : w \in 1..MaxCols}
          \cup {<<<<hdr, NumberedRow(Len(hdr))>>>> :
                    hdr \in DistinctSeqs(Labels, MaxCols) \ {<<>>}}
    /\ pdf_text = <<"1", "\n", "2">>
    /\ astype_keeps_na = FALSE

\* Files of one column that differ in their cells and row counts.
InitCells ==
    /\ excel_data \in UNION {FramesOf(<<Name>>, n, {NaN, <<>>, Ten}) :
                                n \in 0..MaxRows}
    /\ pdf_tables \in
          UNION {{<<t>> : t \in TablesOf(<<Name>>, n, {None, <<>>, Ten})} :
                     n \in 1..MaxRows}
    /\ pdf_text = Ten
    /\ astype_keeps_na \in BOOLEAN

\* Files of two columns, the Excel sheet filled with one value, the PDF's
\* cells in up to MaxTables tables that need not hold both columns.
Headers2 == {<<Name>>, <<Name, Total>>}
TableLists ==
    UNION {{ts \in [1..k -> UNION {TablesOf(h, n, {<<>>, Ten}) :
                                      h \in Headers2, n \in 1..MaxRows}] :
               SeqSum([i \in 1..k |-> Len(ts[i]) - 1]) <= MaxRows} :
           k \in 1..MaxTables}
InitStacked ==
    /\ excel_data \in UNION {FramesOf(<<Name, Total>>, n, {Ten}) :
                                n \in 1..MaxRows}
    /\ pdf_tables \in TableLists
    /\ pdf_text = Ten
    /\ astype_keeps_na \in BOOLEAN

Init ==
    /\ InitLabels \/ InitCells \/ InitStacked
    /\ hash_order = NoOrder
    /\ default_prefix = 0
    /\ pc = "idle"
    /\ pdf_data = EmptyFrame
    /\ last_match = NoMatch
    /\ compared = <<>>
    /\ data_diff = <<>>
    /\ html_diff = NoTable
    /\ ui = ""
    /\ runs = 0
    /\ prev_diff = <<>>
    /\ prev_html = NoTable
    /\ text1 = <<>>
    /\ text2 = <<>>
    /\ table = NoTable

Spec == Init /\ [][Next]_vars

(***************************************************************************)
(* make_html_diff called directly on two texts.                            *)
(***************************************************************************)
Line1Line2 == <<"l", "i", "n", "e", "1", "\n", "l", "i", "n", "e", "2">>
Line1Line2b == Line1Line2 \o <<"b">>
\* Fourteen lines, and the same with the first and the last line changed.
LongText ==
    <<"a", "\n", "b", "\n", "a", "\n", "b", "\n", "a", "\n", "b", "\n", "a",
      "\n", "b", "\n", "a", "\n", "b", "\n", "a", "\n", "b", "\n", "a", "\n",
      "b">>
LongTextEdited == <<"b", "b">> \o Tail(LongText) \o <<"a">>

Texts ==
    UNION {[1..n -> {"a", "b", "\n"}] : n \in 0..MaxTextLen}
        \cup {Line1Line2, Line1Line2b, LongText, LongTextEdited}

CallMakeHtmlDiff ==
    /\ default_prefix < MaxCalls
    /\ table' = make_html_diff(text1, text2, default_prefix)
    /\ default_prefix' = default_prefix + 1
    /\ UNCHANGED <<pdf_tables, pdf_text, excel_data, astype_keeps_na,
                   hash_order, pc, pdf_data, last_match, compared, data_diff,
                   html_diff, ui, runs, prev_diff, prev_html, text1, text2>>

InitDiff ==
    /\ text1 \in Texts
    /\ text2 \in Texts
    /\ table = NoTable
    /\ default_prefix = 0
    /\ pdf_tables = <<>>
    /\ pdf_text = <<>>
    /\ excel_data = EmptyFrame
    /\ astype_keeps_na = FALSE
    /\ hash_order = NoOrder
    /\ pc = "idle"
    /\ pdf_data = EmptyFrame
    /\ last_match = NoMatch
    /\ compared = <<>>
    /\ data_diff = <<>>
    /\ html_diff = NoTable
    /\ ui = ""
    /\ runs = 0
    /\ prev_diff = <<>>
    /\ prev_html = NoTable

NextDiff == CallMakeHtmlDiff

SpecDiff == InitDiff /\ [][NextDiff]_vars

(***************************************************************************)
(* What the properties below speak of.                                     *)
(***************************************************************************)
\* A run of the comparison has ended, normally or by an exception.
Ran == pc # "idle"

\* The column labels of the two record sets given to the last run.
ExcelColumns == Range(excel_data.columns)
PdfColumns == Range(extract_pdf_tables(pdf_tables).columns)

\* The labels the two sets share exactly, and the lower-cased names their
\* string labels share.
ExactShared == ExcelColumns \cap PdfColumns
LowerNames(S) == {Lower(c) : c \in {x \in S : IsStr(x)}}
LowerShared == LowerNames(ExcelColumns) \cap LowerNames(PdfColumns)

\* The cell of column c at row i (0-based) after normalisation, "" where
\* the frame has no such row.
NormCell(df, c, i) ==
    IF i < df.nrows THEN normalized_column(df, c)[i + 1] ELSE <<>>

\* The rows (0-based) at which the pair p of compared columns differs.
MismatchRows(p) ==
    {i \in 0..(Max(excel_data.nrows, pdf_data.nrows) - 1) :
        NormCell(excel_data, p[1], i) # NormCell(pdf_data, p[2], i)}

\* The positions of the report whose record is about column c.
RecordsOf(c) == {k \in 1..Len(data_diff) : data_diff[k].Column = c}

(***************************************************************************)
(* C1.  When the two record sets share at least one column label exactly,  *)
(* match_columns returns the set of the labels in both, and the loop       *)
(* compares each of them with itself and nothing else: no pair comes from  *)
(* the case-insensitive pass, even where it would find more.               *)
(***************************************************************************)
C1_ExactMatchIsIdentity ==
    (Ran /\ ExactShared # {}) =>
        /\ pc = "done"
        /\ last_match.kind = "set"
        /\ Range(last_match.items) = ExactShared
        /\ Len(last_match.items) = Cardinality(ExactShared)
        /\ Range(compared) = {<<c, c>> : c \in ExactShared}
        /\ Len(compared) = Cardinality(ExactShared)

\* A run on files that share one label exactly and another only up to case.
C1_Witness ==
    /\ pc = "done"
    /\ ExactShared # {}
    /\ \E a \in ExcelColumns \ ExactShared, b \in PdfColumns \ ExactShared :
          Lower(a) = Lower(b)
    /\ compared # <<>>

(***************************************************************************)
(* C2.  When the two record sets share no column label exactly but share   *)
(* one up to case, match_columns returns, for each lower-cased name on     *)
(* both sides, one pair from a label of the Excel set to a label of the    *)
(* PDF set with that lower-cased name, and nothing else; the comparison    *)
(* then runs over these pairs.                                             *)
(***************************************************************************)
C2_CaseInsensitiveFallback ==
    (Ran /\ ExactShared = {} /\ LowerShared # {}) =>
        /\ pc = "done"
        /\ last_match.kind = "dict"
        /\ Len(last_match.items) = Cardinality(LowerShared)
        /\ \A n \in LowerShared :
              \E k \in 1..Len(last_match.items) :
                 /\ last_match.items[k][1] \in ExcelColumns
                 /\ last_match.items[k][2] \in PdfColumns
                 /\ Lower(last_match.items[k][1]) = n
                 /\ Lower(last_match.items[k][2]) = n
        /\ compared = last_match.items

(***************************************************************************)
(* C6.  When the two record sets share no column in either pass (a set     *)
(* without columns and columns with numeric labels included),              *)
(* match_columns returns an empty correspondence, the report is empty,     *)
(* nothing is raised and the page says that no mismatches were found.      *)
(***************************************************************************)
C6_NoSharedColumnsIsSilent ==
    (Ran /\ ExactShared = {} /\ LowerShared = {}) =>
        /\ pc = "done"
        /\ last_match.items = <<>>
        /\ compared = <<>>
        /\ data_diff = <<>>
        /\ ui = "no_mismatches"

(***************************************************************************)
(* C3.  For every compared pair of columns and every row position, the     *)
(* report holds a record for that column and row exactly when the          *)
(* normalised strings of the two cells differ; every record of the report  *)
(* carries the row position, the two normalised values and the Excel       *)
(* set's column label.                                                     *)
(***************************************************************************)
C3_RecordIffCellsDiffer ==
    pc = "done" =>
        /\ \A k \in DOMAIN compared :
              \A i \in 0..(Max(excel_data.nrows, pdf_data.nrows) - 1) :
                 (\E j \in RecordsOf(compared[k][1]) : data_diff[j].index = i)
                     <=> (i \in MismatchRows(compared[k]))
        /\ \A j \in DOMAIN data_diff :
              \E k \in DOMAIN compared :
                 /\ data_diff[j].Column = compared[k][1]
                 /\ data_diff[j].index \in MismatchRows(compared[k])
                 /\ data_diff[j].Excel =
                        NormCell(excel_data, compared[k][1], data_diff[j].index)
                 /\ data_diff[j].PDF =
                        NormCell(pdf_data, compared[k][2], data_diff[j].index)

\* Two rows compared, the first equal on both sides, the second not.
C3_Witness ==
    /\ pc = "done"
    /\ excel_data.nrows = 2
    /\ pdf_data.nrows = 2
    /\ Len(data_diff) = 1
    /\ data_diff[1].index = 1
    /\ data_diff[1].Excel = Ten
    /\ data_diff[1].PDF = <<>>

(***************************************************************************)
(* C4.  An absent cell (None, NaN) is compared as the empty string: a      *)
(* record about a row where a side's cell is absent shows "" for that      *)
(* side, and no record is written where the Excel cell is absent and the   *)
(* PDF cell is absent or empty.                                            *)
(***************************************************************************)
RawCell(df, c, i) == IF i < df.nrows THEN df.data[c][i + 1] ELSE <<>>

C4_AbsentIsEmptyString ==
    pc = "done" =>
        \A j \in DOMAIN data_diff : \A k \in DOMAIN compared :
            data_diff[j].Column = compared[k][1] =>
                /\ IsNA(RawCell(excel_data, compared[k][1], data_diff[j].index))
                       => data_diff[j].Excel = <<>>
                /\ IsNA(RawCell(pdf_data, compared[k][2], data_diff[j].index))
                       => data_diff[j].PDF = <<>>
                /\ ~(/\ IsNA(RawCell(excel_data, compared[k][1],
                                     data_diff[j].index))
                     /\ fillna(RawCell(pdf_data, compared[k][2],
                                       data_diff[j].index), <<>>) = <<>>)

(***************************************************************************)
(* C5.  When the two columns of a pair differ in length, the shorter is    *)
(* padded with "" up to the longer: each row past the shorter's end whose  *)
(* cell on the longer side is not empty gets a record with "" on the       *)
(* shorter side, and no record has a row position outside                  *)
(* 0 .. max(len A, len B) - 1.                                             *)
(***************************************************************************)
C5_ShorterColumnPadded ==
    pc = "done" =>
        \A k \in DOMAIN compared :
            /\ \A j \in RecordsOf(compared[k][1]) :
                  data_diff[j].index \in
                      0..(Max(excel_data.nrows, pdf_data.nrows) - 1)
            /\ \A i \in pdf_data.nrows..(excel_data.nrows - 1) :
                  NormCell(excel_data, compared[k][1], i) # <<>> =>
                      \E j \in RecordsOf(compared[k][1]) :
                         /\ data_diff[j].index = i
                         /\ data_diff[j].PDF = <<>>
                         /\ data_diff[j].Excel =
                                NormCell(excel_data, compared[k][1], i)
            /\ \A i \in excel_data.nrows..(pdf_data.nrows - 1) :
                  NormCell(pdf_data, compared[k][2], i) # <<>> =>
                      \E j \in RecordsOf(compared[k][1]) :
                         /\ data_diff[j].index = i
                         /\ data_diff[j].Excel = <<>>
                         /\ data_diff[j].PDF =
                                NormCell(pdf_data, compared[k][2], i)

\* The Excel column is one row longer, and that row is reported against "".
C5_Witness ==
    /\ pc = "done"
    /\ excel_data.nrows = pdf_data.nrows + 1
    /\ \E j \in DOMAIN data_diff :
          /\ data_diff[j].index = pdf_data.nrows
          /\ data_diff[j].PDF = <<>>
          /\ data_diff[j].Excel = Ten

(***************************************************************************)
(* C9.  The report is the per-column mismatch sets one after the other in  *)
(* the order the matched pairs were enumerated: the records of one column  *)
(* are contiguous, their row positions strictly increase, columns follow   *)
(* each other as their pairs do, and the report's length is the sum of     *)
(* the per-column mismatch counts, so a row that differs in two columns    *)
(* is reported once for each.                                              *)
(***************************************************************************)
PairAt(c) == CHOOSE k \in DOMAIN compared : compared[k][1] = c

C9_ReportIsFlatConcatenation ==
    pc = "done" =>
        /\ Len(data_diff) =
               SeqSum([k \in DOMAIN compared |->
                          Cardinality(MismatchRows(compared[k]))])
        /\ \A i, j \in DOMAIN data_diff :
              i < j =>
                 IF data_diff[i].Column = data_diff[j].Column
                 THEN /\ data_diff[i].index < data_diff[j].index
                      /\ \A m \in i..j :
                            data_diff[m].Column = data_diff[i].Column
                 ELSE PairAt(data_diff[i].Column) < PairAt(data_diff[j].Column)

\* Two columns with mismatches, one row reported under both.
C9_Witness ==
    /\ pc = "done"
    /\ Len(data_diff) >= 3
    /\ \E i, j \in DOMAIN data_diff :
          /\ data_diff[i].Column # data_diff[j].Column
          /\ data_diff[i].index = data_diff[j].index

TextDiffRows(t) ==
    [rows |-> t.rows, no_differences |-> t.no_differences,
     fromdesc |-> t.fromdesc, todesc |-> t.todesc]

C7_SecondRunIdentical ==
    (runs >= 2 /\ pc = "done") =>
        /\ data_diff = prev_diff
        /\ TextDiffRows(html_diff) = TextDiffRows(prev_html)

(***************************************************************************)
(* C8.  make_html_diff on two texts: (i) identical texts give the "no      *)
(* differences" table, with no row flagged or marked up; (ii) an empty     *)
(* text against a non-empty one gives one row per line of the non-empty    *)
(* text, each marked added (first text empty) or deleted (second text      *)
(* empty) beside a blank, and no unchanged row; (iii) "line1\nline2"       *)
(* against "line1\nline2b" gives line 1 unchanged and line 2 of the one    *)
(* paired with line 2 of the other as a change.                            *)
(***************************************************************************)
\* The number of lines of a text, counted on its characters.
LineCount(t) ==
    Cardinality({i \in DOMAIN t : t[i] = "\n"})
        + (IF t # <<>> /\ t[Len(t)] # "\n" THEN 1 ELSE 0)

C8_DiffOfTexts ==
    table # NoTable =>
        /\ text1 = text2 =>
              /\ table.no_differences
              /\ \A k \in DOMAIN table.rows :
                    /\ ~table.rows[k].flag
                    /\ table.rows[k].from.mark = "plain"
                    /\ table.rows[k].to.mark = "plain"
        /\ (text1 = <<>> /\ text2 # <<>>) =>
              table.rows = [k \in 1..LineCount(text2) |->
                               [from |-> Blank,
                                to |-> [num |-> k, mark |-> "add"],
                                flag |-> TRUE]]
        /\ (text2 = <<>> /\ text1 # <<>>) =>
              table.rows = [k \in 1..LineCount(text1) |->
                               [from |-> [num |-> k, mark |-> "sub"],
                                to |-> Blank,
                                flag |-> TRUE]]
        /\ (text1 = Line1Line2 /\ text2 = Line1Line2b) =>
              /\ Len(table.rows) = 2
              /\ table.rows[1] = [from |-> [num |-> 1, mark |-> "plain"],
                                  to |-> [num |-> 1, mark |-> "plain"],
                                  flag |-> FALSE]
              /\ table.rows[2].flag
              /\ table.rows[2].from.num = 2
              /\ table.rows[2].to.num = 2

\* The scenario's texts diffed: the change is marked inside the second line.
C8_Witness ==
    /\ table # NoTable
    /\ text1 = Line1Line2
    /\ text2 = Line1Line2b
    /\ table.rows[2].to.mark = "chg"

====
